---------------------------- MODULE Spec2Model ----------------------------
(***************************************************************************)
(* A model of the Task record of src/task.rs: its constructors, setters,   *)
(* the todo.txt parser and serializer, the tag extraction and the four     *)
(* comparators.                                                            *)
(*                                                                         *)
(* A String is a sequence of one-character strings, so that the regular    *)
(* expressions of the source are modelled on the characters they read.     *)
(* An Option<T> is a sequence of length 0 (None) or 1 (Some(x)).  A        *)
(* NaiveDate is a record [y, m, d].  A HashMap<String,String> is a set of  *)
(* <<key, value>> pairs with unique keys.                                  *)
(*                                                                         *)
(* TLC may evaluate the argument of an operator and the definition of a    *)
(* LET anew at each use.  A value that is costly and used more than once   *)
(* is therefore bound by a quantifier over a singleton set: The({e(v) : v  *)
(* \in {x}}) is e(x), with x evaluated once.                               *)
(***************************************************************************)
EXTENDS Integers, Sequences, FiniteSets, TLC

VARIABLES
    task,    \* the Task the caller holds
    today,   \* the local calendar date Local::now() returns
    op,      \* the last operation performed
    res,     \* outcome of the last from_todotxt: "ok", "err" or "panic"
    built,   \* TRUE while the task comes from new/new_with_date and setters only
    line,    \* the todo.txt line handed to from_todotxt
    trio,    \* three tasks handed to the comparators
    ords     \* the comparators' results on trio

vars == <<task, today, op, res, built, line, trio, ords>>

\* the element of a singleton set
The(S) == CHOOSE x \in S : TRUE

\* ------------------------------------------------------------ Option<T>

None == <<>>

Some(x) == <<x>>

IsSome(o) == Len(o) = 1

Unwrap(o) == o[1]

\* ------------------------------------------------------------ characters

Digits == {"0", "1", "2", "3", "4", "5", "6", "7", "8", "9"}

\* \s of the regex crate, on the characters of the model
Whitespace == {" ", "\n"}

\* the byte order of the characters the model uses (String's Ord is bytewise)
CharCode(c) ==
    CASE c = "\n" -> 10
      [] c = " " -> 32
      [] c = "(" -> 40
      [] c = ")" -> 41
      [] c = "+" -> 43
      [] c = "-" -> 45
      [] c = "0" -> 48
      [] c = "1" -> 49
      [] c = "2" -> 50
      [] c = "3" -> 51
      [] c = "4" -> 52
      [] c = "5" -> 53
      [] c = "6" -> 54
      [] c = "7" -> 55
      [] c = "8" -> 56
      [] c = "9" -> 57
      [] c = ":" -> 58
      [] c = "@" -> 64
      [] c = "A" -> 65
      [] c = "B" -> 66
      [] c = "a" -> 97
      [] c = "b" -> 98
      [] c = "c" -> 99
      [] c = "d" -> 100
      [] c = "e" -> 101
      [] c = "k" -> 107
      [] c = "p" -> 112
      [] c = "u" -> 117
      [] c = "v" -> 118
      [] c = "x" -> 120

DigitVal(c) == CharCode(c) - 48

DigitChar(n) ==
    CASE n = 0 -> "0" [] n = 1 -> "1" [] n = 2 -> "2" [] n = 3 -> "3"
      [] n = 4 -> "4" [] n = 5 -> "5" [] n = 6 -> "6" [] n = 7 -> "7"
      [] n = 8 -> "8" [] n = 9 -> "9"

\* ------------------------------------------------------------ strings

Drop(s, n) == SubSeq(s, n + 1, Len(s))

Take(s, n) == SubSeq(s, 1, n)

Chars(s) == {s[i] : i \in 1..Len(s)}

\* whether the text p stands in s at position i
HasAt(s, i, p) == Len(s) >= i + Len(p) - 1 /\ SubSeq(s, i, i + Len(p) - 1) = p

\* String's `<`: lexicographic on the bytes
StrLess(a, b) ==
    \E k \in 0..Len(a) :
        /\ k <= Len(b)
        /\ Take(a, k) = Take(b, k)
        /\ \/ k = Len(a) /\ k < Len(b)
           \/ k < Len(a) /\ k < Len(b) /\ CharCode(a[k + 1]) < CharCode(b[k + 1])

\* the number of characters of s from position i on that are in the set cs
\* (i <= Len(s) + 1)
RunAt(s, i, cs) ==
    CHOOSE k \in 0..(Len(s) + 1 - i) :
        /\ \A j \in i..(i + k - 1) : s[j] \in cs
        /\ (i + k > Len(s) \/ s[i + k] \notin cs)

\* the number of characters of s from position i on that are not in the set cs
RunNotAt(s, i, cs) ==
    CHOOSE k \in 0..(Len(s) + 1 - i) :
        /\ \A j \in i..(i + k - 1) : s[j] \notin cs
        /\ (i + k > Len(s) \/ s[i + k] \in cs)

\* ------------------------------------------------------------ chrono

Date(y, m, d) == [y |-> y, m |-> m, d |-> d]

\* NaiveDate's Ord
DateLess(d1, d2) ==
    \/ d1.y < d2.y
    \/ d1.y = d2.y /\ d1.m < d2.m
    \/ d1.y = d2.y /\ d1.m = d2.m /\ d1.d < d2.d

IsLeap(y) == y % 4 = 0 /\ (y % 100 # 0 \/ y % 400 = 0)

DaysInMonth(y, m) ==
    IF m = 2 THEN (IF IsLeap(y) THEN 29 ELSE 28)
    ELSE IF m \in {4, 6, 9, 11} THEN 30 ELSE 31

\* NaiveDate::from_ymd_opt: the dates of the proleptic Gregorian calendar
ValidYmd(y, m, d) ==
    /\ y \in -262144..262143
    /\ m \in 1..12
    /\ d \in 1..DaysInMonth(y, m)

\* n written with w digits, zero padded (n < 10^w)
RECURSIVE Pad(_, _)
Pad(n, w) == IF w = 0 THEN <<>> ELSE Append(Pad(n \div 10, w - 1), DigitChar(n % 10))

\* date.format("%Y-%m-%d"), for the years 0..9999
FormatDate(date) ==
    Pad(date.y, 4) \o <<"-">> \o Pad(date.m, 2) \o <<"-">> \o Pad(date.d, 2)

\* the value of the n decimal digits of s from position i on
RECURSIVE NumberAt(_, _, _)
NumberAt(s, i, n) ==
    IF n = 0 THEN 0 ELSE 10 * NumberAt(s, i, n - 1) + DigitVal(s[i + n - 1])

\* chrono's scan::number(s, 1, max) on s from position i on, after trim_left:
\* <<value, position behind the digits>>, or <<>> when no digit leads
ScanNumber(s, i, max) ==
    The({The({IF r = 0 THEN <<>>
              ELSE IF r > max THEN <<NumberAt(s, j, max), j + max>>
              ELSE <<NumberAt(s, j, r), j + r>>
              : r \in {RunAt(s, j, Digits)}})
         : j \in {i + RunAt(s, i, Whitespace)}})

\* chrono's %Y on s from position i on: a sign lifts the limit of four digits
\* and binds the digits to it
ScanYear(s, i) ==
    The({IF j <= Len(s) /\ s[j] \in {"-", "+"}
         THEN IF j + 1 > Len(s) \/ s[j + 1] \notin Digits THEN <<>>
              ELSE The({IF s[j] = "-" THEN <<0 - v[1], v[2]>> ELSE v
                        : v \in {ScanNumber(s, j + 1, Len(s))}})
         ELSE ScanNumber(s, j, 4)
         : j \in {i + RunAt(s, i, Whitespace)}})

\* NaiveDate::parse_from_str(s, "%Y-%m-%d "): Some(date), or None for Err.
\* The items are %Y, "-", %m, "-", %d and a space, which takes any run of
\* whitespace, the empty one included; the whole of s must be consumed.
ParseFromStr(s) ==
    The({IF y = <<>> \/ ~HasAt(s, y[2], <<"-">>) THEN None
         ELSE The({IF m = <<>> \/ ~HasAt(s, m[2], <<"-">>) THEN None
                   ELSE The({IF d = <<>> THEN None
                             ELSE IF d[2] + RunAt(s, d[2], Whitespace) <= Len(s) THEN None
                             ELSE IF ValidYmd(y[1], m[1], d[1])
                             THEN Some(Date(y[1], m[1], d[1]))
                             ELSE None
                             : d \in {ScanNumber(s, m[2] + 1, 2)}})
                   : m \in {ScanNumber(s, y[2] + 1, 2)}})
         : y \in {ScanYear(s, 1)}})

\* ------------------------------------------------------------ the Task record

\* Task::empty()
empty ==
    [content |-> <<>>, duedate |-> None, completion |-> FALSE,
     context_tags |-> <<>>, project_tags |-> <<>>, priority |-> None,
     creation_date |-> None, completion_date |-> None, custom_tags |-> {}]

due == <<"d", "u", "e">>

\* HashMap::insert
Insert(map, key, value) == {p \in map : p[1] # key} \cup {<<key, value>>}

\* HashMap::remove_entry
Remove(map, key) == {p \in map : p[1] # key}

\* HashMap::get
Get(map, key) ==
    IF \E p \in map : p[1] = key THEN Some((CHOOSE p \in map : p[1] = key)[2]) ELSE None

\* ------------------------------------------------------------ tag extraction

\* Vec::sort: the insertion of x into the sorted vector v
RECURSIVE InsertSorted(_, _)
InsertSorted(v0, x0) ==
    The({IF v = <<>> THEN <<x>>
         ELSE IF StrLess(x, v[1]) THEN <<x>> \o v
         ELSE <<v[1]>> \o InsertSorted(Tail(v), x)
         : v \in {v0}, x \in {x0}})

RECURSIVE Sort(_)
Sort(v0) ==
    The({IF v = <<>> THEN <<>> ELSE InsertSorted(Sort(Tail(v)), v[1]) : v \in {v0}})

\* Vec::dedup: removes consecutive repeated elements
RECURSIVE Dedup(_)
Dedup(v0) ==
    The({IF Len(v) <= 1 THEN v
         ELSE IF v[1] = v[2] THEN Dedup(Tail(v))
         ELSE <<v[1]>> \o Dedup(Tail(v))
         : v \in {v0}})

\* the position where the tag of a match of ((^| )M(?P<tag>\S+)) starting at i
\* begins (M is the mark, + or @), or 0 when the pattern does not match at i
TagAt(s, i, mark) ==
    IF i = 1 /\ Len(s) >= 2 /\ s[1] = mark /\ s[2] \notin Whitespace THEN 2
    ELSE IF Len(s) >= i + 2 /\ s[i] = " " /\ s[i + 1] = mark /\ s[i + 2] \notin Whitespace
    THEN i + 2
    ELSE 0

\* the start of the leftmost match of the pattern at or behind position i, or 0
NextMatch(s, i, mark) ==
    The({IF starts = {} THEN 0 ELSE CHOOSE j \in starts : \A k \in starts : j <= k
         : starts \in {{j \in i..Len(s) : TagAt(s, j, mark) > 0}}})

\* captures_iter: the tags of the successive non-overlapping matches from position i on
RECURSIVE CapturedTags(_, _, _)
CapturedTags(s0, i0, mark0) ==
    The({The({IF t = 0 THEN <<>>
              ELSE The({<<SubSeq(s, t, t + n - 1)>> \o CapturedTags(s, t + n, mark)
                        : n \in {RunNotAt(s, t, Whitespace)}})
              : t \in {The({IF j = 0 THEN 0 ELSE TagAt(s, j, mark)
                            : j \in {NextMatch(s, i, mark)}})}})
         : s \in {s0}, i \in {i0}, mark \in {mark0}})

get_tags_from_capture(captures) == Dedup(Sort(captures))

extract_tags(t0) ==
    The({[t EXCEPT !.project_tags = get_tags_from_capture(CapturedTags(t.content, 1, "+")),
                   !.context_tags = get_tags_from_capture(CapturedTags(t.content, 1, "@"))]
         : t \in {t0}})

\* ------------------------------------------------------------ setters and constructors

\* set_content without the call of extract_tags
set_content_stale(t, content) == [t EXCEPT !.content = content]

set_content(t, content) == extract_tags([t EXCEPT !.content = content])

\* set_due that leaves the `due` entry in place when the date is None
set_due_keeps_tag(t, date) ==
    [t EXCEPT !.duedate = date,
              !.custom_tags = IF IsSome(date)
                              THEN Insert(@, due, FormatDate(Unwrap(date)))
                              ELSE @]

set_due(t, date) ==
    [t EXCEPT !.duedate = date,
              !.custom_tags = IF IsSome(date)
                              THEN Insert(@, due, FormatDate(Unwrap(date)))
                              ELSE Remove(@, due)]

\* set_completed without the creation date it adds
set_completed_no_creation(t, now) ==
    [t EXCEPT !.completion = TRUE, !.completion_date = Some(now)]

\* set_completed that stamps the creation date anew
set_completed_restamps(t, now) ==
    [t EXCEPT !.completion = TRUE, !.completion_date = Some(now), !.creation_date = Some(now)]

set_completed(t, now) ==
    [t EXCEPT !.completion = TRUE,
              !.completion_date = Some(now),
              !.creation_date = IF @ = None THEN Some(now) ELSE @]

set_not_completed(t) ==
    [t EXCEPT !.completion = FALSE, !.completion_date = None]

\* Task::new(content)
new(content, now) == [set_content(empty, content) EXCEPT !.creation_date = Some(now)]

new_with_date(content, date, now) == set_due(new(content, now), Some(date))

\* ------------------------------------------------------------ from_todotxt

Upper == {"A", "B"}

\* \d{4}-\d{2}-\d{2} followed by a space, in s at position i
IsDateToken(s, i) ==
    /\ Len(s) >= i + 10
    /\ \A j \in {0, 1, 2, 3, 5, 6, 8, 9} : s[i + j] \in Digits
    /\ s[i + 4] = "-" /\ s[i + 7] = "-" /\ s[i + 10] = " "

\* \((?P<priority>[A-Z])\) followed by a space, in s at position i
IsPriorityToken(s, i) ==
    Len(s) >= i + 3 /\ s[i] = "(" /\ s[i + 1] \in Upper /\ s[i + 2] = ")" /\ s[i + 3] = " "

\* RE_TASK.captures(todo): Some(the named groups), each an Option, or None.
\* Every optional group is greedy and the content group takes any rest that
\* holds no line feed, so the first choice of each group stands.  x, p, c and
\* r are the positions of the four optional groups, or 0 for a group that
\* does not take part, and e is the position behind them.
RE_TASK(todo) ==
    IF "\n" \in Chars(todo) THEN None
    ELSE The({The({The({The({
            Some([completion |-> IF x = 1 THEN Some(SubSeq(todo, 1, 2)) ELSE None,
                  priority   |-> IF p > 0 THEN Some(<<todo[p + 1]>>) ELSE None,
                  compdate   |-> IF c > 0 THEN Some(SubSeq(todo, c, c + 10)) ELSE None,
                  creadate   |-> IF r > 0 THEN Some(SubSeq(todo, r, r + 10)) ELSE None,
                  content    |-> Drop(todo, (IF r > 0 THEN r + 11
                                             ELSE IF c > 0 THEN c + 11
                                             ELSE IF p > 0 THEN p + 4
                                             ELSE IF x = 1 THEN 3 ELSE 1) - 1)])
            : r \in {IF c > 0 /\ IsDateToken(todo, c + 11) THEN c + 11 ELSE 0}})
            : c \in {IF IsDateToken(todo, IF p > 0 THEN p + 4 ELSE 2 * x + 1)
                     THEN (IF p > 0 THEN p + 4 ELSE 2 * x + 1) ELSE 0}})
            : p \in {IF IsPriorityToken(todo, 2 * x + 1) THEN 2 * x + 1 ELSE 0}})
            : x \in {IF HasAt(todo, 1, <<"x", " ">>) THEN 1 ELSE 0}})

NotKeyValue == {":"} \cup Whitespace

\* the length of a match of ( ([^:\s]+):([^:\s]+)) in s at position i, or 0
TagGroupLen(s, i) ==
    IF i > Len(s) \/ s[i] # " " THEN 0
    ELSE The({IF k = 0 \/ i + k + 1 > Len(s) \/ s[i + k + 1] # ":" THEN 0
              ELSE The({IF v = 0 THEN 0 ELSE k + 2 + v
                        : v \in {RunNotAt(s, i + k + 2, NotKeyValue)}})
              : k \in {RunNotAt(s, i + 1, NotKeyValue)}})

\* whether s from position i to its end matches ( ([^:\s]+):([^:\s]+))+
RECURSIVE IsTagBlock(_, _)
IsTagBlock(s0, i0) ==
    \E s \in {s0}, i \in {i0} :
        \E g \in {TagGroupLen(s, i)} :
            g > 0 /\ (i + g = Len(s) + 1 \/ IsTagBlock(s, i + g))

\* RE_ALLTAGS.captures(content): the start of the leftmost match, which runs
\* to the end of content, or 0 when there is none
RE_ALLTAGS(content) ==
    The({IF starts = {} THEN 0 ELSE CHOOSE i \in starts : \A j \in starts : i <= j
         : starts \in {{i \in 1..Len(content) : IsTagBlock(content, i)}}})

\* RE_TAG.captures_iter over the matched block, which is s from position i on,
\* each tag inserted in turn
RECURSIVE InsertTags(_, _, _)
InsertTags(map0, s0, i0) ==
    The({IF i > Len(s) THEN map
         ELSE The({InsertTags(Insert(map, SubSeq(s, i + 1, i + k),
                                          SubSeq(s, i + k + 2, i + g - 1)),
                              s, i + g)
                   : g \in {TagGroupLen(s, i)}, k \in {RunNotAt(s, i + 1, NotKeyValue)}})
         : map \in {map0}, s \in {s0}, i \in {i0}})

\* ParsedDates with a single date taken as the completion date
ParsedDates_single_is_completion(cap) ==
    The({[panic |-> (IsSome(cap.compdate) /\ comp = None) \/ (IsSome(cap.creadate) /\ crea = None),
          completion_date |-> comp, creation_date |-> crea]
         : comp \in {IF IsSome(cap.compdate) THEN ParseFromStr(Unwrap(cap.compdate)) ELSE None},
           crea \in {IF IsSome(cap.creadate) THEN ParseFromStr(Unwrap(cap.creadate)) ELSE None}})

\* the dates from_todotxt assigns from the compdate and creadate groups:
\* [panic, completion_date, creation_date]; parse_from_str(..).unwrap() panics on Err
ParsedDates(cap) ==
    The({IF IsSome(cap.creadate)
         THEN [panic |-> crea = None \/ (IsSome(cap.compdate) /\ comp = None),
               completion_date |-> IF IsSome(cap.compdate) THEN comp ELSE None,
               creation_date |-> crea]
         ELSE IF IsSome(cap.compdate)
         THEN [panic |-> comp = None, completion_date |-> None, creation_date |-> comp]
         ELSE [panic |-> FALSE, completion_date |-> None, creation_date |-> None]
         : comp \in {IF IsSome(cap.compdate) THEN ParseFromStr(Unwrap(cap.compdate)) ELSE None},
           crea \in {IF IsSome(cap.creadate) THEN ParseFromStr(Unwrap(cap.creadate)) ELSE None}})

\* the content and the custom tags from_todotxt takes from the content group
SplitContent(t, content) ==
    The({IF a = 0 THEN [t EXCEPT !.content = content]
         ELSE [t EXCEPT !.content = Take(content, a - 1),
                        !.custom_tags = InsertTags(@, content, a)]
         : a \in {RE_ALLTAGS(content)}})

\* the due date from_todotxt takes from the custom tag `due`
DueFromTags(t0) ==
    The({The({IF IsSome(str_date)
              THEN [t EXCEPT !.duedate = ParseFromStr(Unwrap(str_date))]
              ELSE t
              : str_date \in {Get(t.custom_tags, due)}})
         : t \in {t0}})

\* from_todotxt with the arm for a line without dates leaving the creation
\* date that Task::new stamped
from_todotxt_keeps_stamp(todo, now) ==
    The({IF m = None THEN [res |-> "err", task |-> empty]
         ELSE The({IF ds.panic THEN [res |-> "panic", task |-> empty]
                   ELSE [res |-> "ok",
                         task |-> DueFromTags(extract_tags(SplitContent(
                                     [new(<<>>, now) EXCEPT
                                         !.completion = IsSome(m[1].completion),
                                         !.priority = IF IsSome(m[1].priority)
                                                      THEN Some(Unwrap(m[1].priority)[1])
                                                      ELSE None,
                                         !.creation_date = IF ds.creation_date = None
                                                           THEN @ ELSE ds.creation_date,
                                         !.completion_date = ds.completion_date],
                                     m[1].content)))]
                   : ds \in {ParsedDates(m[1])}})
         : m \in {RE_TASK(todo)}})

\* Task::from_todotxt(todo), called on the day `now`: [res, task], where res is
\* "ok" for Ok(task), "err" for Err("malformed task") and "panic" for an unwrap
\* of Err that aborts the call; task is meaningful for "ok" only
from_todotxt(todo, now) ==
    The({IF m = None THEN [res |-> "err", task |-> empty]
         ELSE The({IF ds.panic THEN [res |-> "panic", task |-> empty]
                   ELSE [res |-> "ok",
                         task |-> DueFromTags(extract_tags(SplitContent(
                                     [new(<<>>, now) EXCEPT
                                         !.completion = IsSome(m[1].completion),
                                         !.priority = IF IsSome(m[1].priority)
                                                      THEN Some(Unwrap(m[1].priority)[1])
                                                      ELSE None,
                                         !.creation_date = ds.creation_date,
                                         !.completion_date = ds.completion_date],
                                     m[1].content)))]
                   : ds \in {ParsedDates(m[1])}})
         : m \in {RE_TASK(todo)}})

\* ------------------------------------------------------------ to_todotxt

\* the orders in which a HashMap of these entries may be iterated
Orders(map) ==
    IF map = {} THEN {<<>>}
    ELSE {f \in [1..Cardinality(map) -> map] :
             \A i, j \in 1..Cardinality(map) : f[i] = f[j] => i = j}

RECURSIVE TagsText(_)
TagsText(entries0) ==
    The({IF Len(entries) = 0 THEN <<>>
         ELSE <<" ">> \o entries[1][1] \o <<":">> \o entries[1][2]
              \o TagsText([i \in 1..(Len(entries) - 1) |-> entries[i + 1]])
         : entries \in {entries0}})

\* the text to_todotxt writes before the custom tags
HeadText(t) ==
    (IF t.completion THEN <<"x", " ">> ELSE <<>>)
    \o (IF IsSome(t.priority) THEN <<"(", Unwrap(t.priority), ")", " ">> ELSE <<>>)
    \o (IF IsSome(t.completion_date) THEN FormatDate(Unwrap(t.completion_date)) \o <<" ">> ELSE <<>>)
    \o (IF IsSome(t.creation_date) THEN FormatDate(Unwrap(t.creation_date)) \o <<" ">> ELSE <<>>)
    \o t.content

\* Task::to_todotxt(): the lines it may return, one for each iteration order of custom_tags
to_todotxt(t) ==
    The({{head \o TagsText(f) : f \in Orders(t.custom_tags)} : head \in {HeadText(t)}})

\* ------------------------------------------------------------ comparators

comp_content(self, compare) ==
    IF self.content = compare.content THEN "Equal"
    ELSE IF StrLess(self.content, compare.content) THEN "Less"
    ELSE "Greater"

\* comp_due_date with a task without due date greater and less at once
comp_due_date_one_sided(self, compare) ==
    IF IsSome(self.duedate) /\ IsSome(compare.duedate)
    THEN IF Unwrap(self.duedate) = Unwrap(compare.duedate) THEN comp_content(self, compare)
         ELSE IF DateLess(Unwrap(self.duedate), Unwrap(compare.duedate)) THEN "Less"
         ELSE "Greater"
    ELSE IF IsSome(self.duedate) THEN "Less"
    ELSE IF IsSome(compare.duedate) THEN "Less"
    ELSE comp_content(self, compare)

comp_due_date(self, compare) ==
    IF IsSome(self.duedate) /\ IsSome(compare.duedate)
    THEN IF Unwrap(self.duedate) = Unwrap(compare.duedate) THEN comp_content(self, compare)
         ELSE IF DateLess(Unwrap(self.duedate), Unwrap(compare.duedate)) THEN "Less"
         ELSE "Greater"
    ELSE IF IsSome(self.duedate) THEN "Less"
    ELSE IF IsSome(compare.duedate) THEN "Greater"
    ELSE comp_content(self, compare)

\* comp_creation_date with the undated tasks last, as comp_due_date has them
comp_creation_date_dated_first(self, compare) ==
    IF IsSome(self.creation_date) /\ IsSome(compare.creation_date)
    THEN IF Unwrap(self.creation_date) = Unwrap(compare.creation_date)
         THEN comp_content(self, compare)
         ELSE IF DateLess(Unwrap(self.creation_date), Unwrap(compare.creation_date)) THEN "Less"
         ELSE "Greater"
    ELSE IF IsSome(self.creation_date) THEN "Less"
    ELSE IF IsSome(compare.creation_date) THEN "Greater"
    ELSE comp_content(self, compare)

comp_creation_date(self, compare) ==
    IF IsSome(self.creation_date) /\ IsSome(compare.creation_date)
    THEN IF Unwrap(self.creation_date) = Unwrap(compare.creation_date)
         THEN comp_content(self, compare)
         ELSE IF DateLess(Unwrap(self.creation_date), Unwrap(compare.creation_date)) THEN "Less"
         ELSE "Greater"
    ELSE IF IsSome(self.creation_date) THEN "Greater"
    ELSE IF IsSome(compare.creation_date) THEN "Less"
    ELSE comp_content(self, compare)

comp_priority(self, compare) ==
    IF IsSome(self.priority) /\ IsSome(compare.priority)
    THEN IF Unwrap(self.priority) = Unwrap(compare.priority) THEN comp_due_date(self, compare)
         ELSE IF CharCode(Unwrap(self.priority)) < CharCode(Unwrap(compare.priority)) THEN "Less"
         ELSE "Greater"
    ELSE IF IsSome(self.priority) THEN "Less"
    ELSE IF IsSome(compare.priority) THEN "Greater"
    ELSE comp_due_date(self, compare)

SortTaskBy == {"CreationDate", "Content", "Priority", "DueDate"}

\* Task::_comp
Comp(self, compare, sort) ==
    CASE sort = "Content" -> comp_content(self, compare)
      [] sort = "CreationDate" -> comp_creation_date(self, compare)
      [] sort = "Priority" -> comp_priority(self, compare)
      [] sort = "DueDate" -> comp_due_date(self, compare)

\* ------------------------------------------------------------ inputs

\* the texts made of at most n of the tokens
RECURSIVE Texts(_, _)
Texts(tokens, n) ==
    IF n = 0 THEN {<<>>}
    ELSE The({shorter \cup {s \o t : s \in shorter, t \in tokens}
              : shorter \in {Texts(tokens, n - 1)}})

D1 == Date(2021, 1, 2)

D2 == Date(2021, 3, 4)

\* a token of the shape of a date that is no date of the calendar
BadDateToken == <<"2", "0", "2", "1", "-", "1", "3", "-", "4", "5", " ">>

PrefixTokens ==
    {<<"x", " ">>, <<"(", "A", ")", " ">>,
     FormatDate(D1) \o <<" ">>, FormatDate(D2) \o <<" ">>, BadDateToken}

WordTokens ==
    {<<"a">>, <<"+", "b", " ", "+", "a", " ", "+", "b">>, <<" ", "@", "c">>, <<"\n">>}

TagTokens ==
    {<<" ", "k", ":", "v">>,
     <<" ">> \o due \o <<":">> \o FormatDate(D1),
     <<" ">> \o due \o <<":", "2", "0", "2", "1", "-", "3", "-", "4">>,
     <<" ">> \o due \o <<":", "x">>}

MaxContentTokens == 1

NumDays == 2

\* a content with the project tag b twice, the project tag a and the context tag c
TaggedContent == <<"+", "b", " ", "@", "c", " ", "+", "a", " ", "+", "b">>

ContentTokens ==
    {TaggedContent, <<"\n">>, FormatDate(D1) \o <<" ">>, <<" ", "k", ":", "v">>}

\* the contents handed to new, new_with_date and set_content
Contents == Texts(ContentTokens, MaxContentTokens)

\* the lines handed to from_todotxt in the life of a task: each mix of marker,
\* priority, dates, words and custom tags
Lines ==
    {x \o p \o d \o w \o t :
        x \in {<<>>, <<"x", " ">>},
        p \in {<<>>, <<"(", "A", ")", " ">>},
        d \in {<<>>, FormatDate(D1) \o <<" ">>,
               FormatDate(D1) \o <<" ">> \o FormatDate(D2) \o <<" ">>, BadDateToken},
        w \in {<<"a">>, <<"+", "b", " ", "@", "c">>, <<"\n">>},
        t \in {<<>>} \cup TagTokens}

\* the dates handed to new_with_date and set_due
DueDates == {D1, D2}

\* the days Local::now() passes through
FirstDay == D2

LastDay == [FirstDay EXCEPT !.d = @ + NumDays - 1]

\* ------------------------------------------------------------ the life of a Task

Init ==
    /\ task = empty
    /\ today = FirstDay
    /\ op = "empty"
    /\ res = "ok"
    /\ built = FALSE
    /\ line = <<>>
    /\ trio = <<>>
    /\ ords = <<>>

\* the clock passes midnight
Tick ==
    /\ res = "ok"
    /\ today.d < LastDay.d
    /\ today' = [today EXCEPT !.d = @ + 1]
    /\ UNCHANGED <<task, op, res, built, line, trio, ords>>

New(content) ==
    /\ op = "empty"
    /\ task' = new(content, today)
    /\ op' = "new"
    /\ built' = TRUE
    /\ UNCHANGED <<today, res, line, trio, ords>>

NewWithDate(content, date) ==
    /\ op = "empty"
    /\ task' = new_with_date(content, date, today)
    /\ op' = "new_with_date"
    /\ built' = TRUE
    /\ UNCHANGED <<today, res, line, trio, ords>>

\* the caller keeps the task it held when from_todotxt returns none
FromTodotxt(todo) ==
    /\ op = "empty"
    /\ \E r \in {from_todotxt(todo, today)} :
          /\ res' = r.res
          /\ task' = IF r.res = "ok" THEN r.task ELSE task
    /\ op' = "from_todotxt"
    /\ built' = FALSE
    /\ UNCHANGED <<today, line, trio, ords>>

SetContent(content) ==
    /\ res = "ok"
    /\ task' = set_content(task, content)
    /\ op' = "set_content"
    /\ UNCHANGED <<today, res, built, line, trio, ords>>

SetDue(date) ==
    /\ res = "ok"
    /\ task' = set_due(task, date)
    /\ op' = "set_due"
    /\ UNCHANGED <<today, res, built, line, trio, ords>>

SetCompleted ==
    /\ res = "ok"
    /\ task' = set_completed(task, today)
    /\ op' = "set_completed"
    /\ UNCHANGED <<today, res, built, line, trio, ords>>

SetNotCompleted ==
    /\ res = "ok"
    /\ task' = set_not_completed(task)
    /\ op' = "set_not_completed"
    /\ UNCHANGED <<today, res, built, line, trio, ords>>

\* from_todotxt(t.to_todotxt()) on a task t built by new or new_with_date and
\* setters: the task is written out and read back
RoundTrip ==
    /\ res = "ok"
    /\ built
    /\ \E todo \in to_todotxt(task) :
          \E r \in {from_todotxt(todo, today)} :
              /\ res' = r.res
              /\ task' = IF r.res = "ok" THEN r.task ELSE task
    /\ op' = "roundtrip"
    /\ built' = FALSE
    /\ UNCHANGED <<today, line, trio, ords>>

Next ==
    \/ Tick
    \/ \E content \in Contents : New(content)
    \/ \E content \in Contents, date \in DueDates : NewWithDate(content, date)
    \/ \E todo \in Lines : FromTodotxt(todo)
    \/ \E content \in Contents : SetContent(content)
    \/ \E date \in {None} \cup {Some(d) : d \in DueDates} : SetDue(date)
    \/ SetCompleted
    \/ SetNotCompleted
    \/ RoundTrip

Spec == Init /\ [][Next]_vars

\* ------------------------------------------------------------ from_todotxt on every line

MaxPrefixTokens == 3

MaxTailTokens == 1

\* the lines handed to from_todotxt: up to MaxPrefixTokens of the leading
\* tokens in any order, then up to MaxTailTokens words and custom tags
ParseLines ==
    {p \o l : p \in Texts(PrefixTokens, MaxPrefixTokens),
              l \in Texts(WordTokens \cup TagTokens, MaxTailTokens)}

Days == {[FirstDay EXCEPT !.d = @ + i] : i \in 0..(NumDays - 1)}

InitParse ==
    /\ task = empty
    /\ today \in Days
    /\ op = "empty"
    /\ res = "ok"
    /\ built = FALSE
    /\ line \in ParseLines
    /\ trio = <<>>
    /\ ords = <<>>

SpecParse == InitParse /\ [][FromTodotxt(line)]_vars

\* ------------------------------------------------------------ the comparators on three tasks

\* lines with each mix of priority, creation date and due date
CmpLines ==
    {p \o c \o w \o d :
        p \in {<<>>, <<"(", "A", ")", " ">>, <<"(", "B", ")", " ">>},
        c \in {<<>>, FormatDate(D1) \o <<" ">>, FormatDate(D2) \o <<" ">>},
        w \in {<<"a">>, <<"b">>},
        d \in {<<>>, <<" ">> \o due \o <<":">> \o FormatDate(D1),
               <<" ">> \o due \o <<":">> \o FormatDate(D2)}}

CmpTasks == {from_todotxt(l, FirstDay).task : l \in CmpLines}

InitCmp ==
    /\ task = empty
    /\ today = FirstDay
    /\ op = "empty"
    /\ res = "ok"
    /\ built = FALSE
    /\ line = <<>>
    /\ trio \in CmpTasks \X CmpTasks \X CmpTasks
    /\ ords = <<>>

\* the three tasks are compared with one another under one sort order
Compare(sort) ==
    /\ op = "empty"
    /\ op' = "comp"
    /\ ords' = [sort |-> sort,
                aa |-> Comp(trio[1], trio[1], sort),
                ab |-> Comp(trio[1], trio[2], sort),
                ba |-> Comp(trio[2], trio[1], sort),
                bc |-> Comp(trio[2], trio[3], sort),
                ac |-> Comp(trio[1], trio[3], sort)]
    /\ UNCHANGED <<task, today, res, built, line, trio>>

NextCmp == \E sort \in SortTaskBy : Compare(sort)

SpecCmp == InitCmp /\ [][NextCmp]_vars

\* ------------------------------------------------------------ properties of a Task's life

\* C1: in every Task reached from empty(), new(), new_with_date() or a
\* successful from_todotxt() by any sequence of setter calls, a completion
\* date is present only if a creation date is present.
C1_CompletionDateHasCreationDate ==
    IsSome(task.completion_date) => IsSome(task.creation_date)

\* set_completed has acted, on the last day, on a task that was not made by
\* new and whose creation date is the one set_completed gave it
C1_Witness ==
    /\ op = "set_completed"
    /\ ~built
    /\ today = LastDay
    /\ today # FirstDay
    /\ task.completion_date = Some(LastDay)
    /\ task.creation_date = Some(LastDay)

\* C2, as claimed: in every Task reached from the constructors or a successful
\* from_todotxt() of any line by any sequence of setter calls, a task that is
\* not completed has no completion date.
C2_NoCompletionDateUnlessCompleted ==
    ~task.completion => task.completion_date = None

\* C3, as claimed: due_date is Some(d) exactly when custom_tags has a `due`
\* entry, and the entry's value is d formatted as YYYY-MM-DD; after
\* set_due(None) there is no `due` key.
C3_DueSynchronized ==
    \E entry \in {Get(task.custom_tags, due)} :
        /\ IsSome(task.duedate) <=> IsSome(entry)
        /\ IsSome(task.duedate) /\ IsSome(entry)
              => Unwrap(entry) = FormatDate(Unwrap(task.duedate))
        /\ op = "set_due" /\ task.duedate = None => entry = None

\* C3, amended: due_date is Some(d) exactly when custom_tags has a `due` entry
\* whose value parse_from_str reads as a date of the calendar, and d is that
\* date; a `due` entry whose value is no such date goes with a due_date of
\* None; after set_due(Some(d)) or new_with_date the entry's value is d
\* formatted as YYYY-MM-DD, and after set_due(None) there is no `due` key.
C3_DueFollowsTag ==
    \E entry \in {Get(task.custom_tags, due)} :
        /\ task.duedate = IF IsSome(entry) THEN ParseFromStr(Unwrap(entry)) ELSE None
        /\ op \in {"set_due", "new_with_date"} /\ IsSome(task.duedate)
              => entry = Some(FormatDate(Unwrap(task.duedate)))
        /\ op = "set_due" /\ task.duedate = None => entry = None

\* a setter has acted on a task parsed from a line with the tag due:x, which
\* is still there and is no date
C3_Witness ==
    /\ op = "set_content"
    /\ res = "ok"
    /\ Get(task.custom_tags, due) = Some(<<"x">>)
    /\ task.duedate = None

\* C4, as claimed: for every Task t built by new or new_with_date and any
\* sequence of setters, whatever its content, from_todotxt(t.to_todotxt())
\* succeeds and yields the completion flag, priority, completion date,
\* creation date, due date, content and custom tags of t.
C4_RoundTrip ==
    [][RoundTrip =>
          /\ res' = "ok"
          /\ task'.completion = task.completion
          /\ task'.priority = task.priority
          /\ task'.completion_date = task.completion_date
          /\ task'.creation_date = task.creation_date
          /\ task'.duedate = task.duedate
          /\ task'.content = task.content
          /\ task'.custom_tags = task.custom_tags
    ]_vars

\* ------------------------------------------------------------ properties of from_todotxt

\* the shape of a date token, YYYY-MM-DD and a space, in s at position i
DateShapeAt(s, i) ==
    /\ Len(s) >= i + 10
    /\ \A j \in 0..9 : IF j \in {4, 7} THEN s[i + j] = "-" ELSE s[i + j] \in Digits
    /\ s[i + 10] = " "

\* the year, month and day that the date token in s at position i spells
SpelledAt(s, i) == Date(NumberAt(s, i, 4), NumberAt(s, i + 5, 2), NumberAt(s, i + 8, 2))

\* the position in s behind the optional marker `x ` and the optional priority
BehindMarkers(s) ==
    The({IF Len(s) >= x + 3 /\ s[x] = "(" /\ s[x + 1] \in Upper /\ s[x + 2] = ")" /\ s[x + 3] = " "
         THEN x + 4 ELSE x
         : x \in {IF Len(s) >= 2 /\ s[1] = "x" /\ s[2] = " " THEN 3 ELSE 1}})

\* how many date tokens lead s at position i, of the two that count
LeadingDates(s, i) ==
    IF ~DateShapeAt(s, i) THEN 0 ELSE IF ~DateShapeAt(s, i + 11) THEN 1 ELSE 2

\* C5: in the task of a successful from_todotxt, behind the optional marker
\* and priority, two leading date tokens give completion_date = the first and
\* creation_date = the second; one leading date token gives creation_date =
\* that date and completion_date = None, with the marker `x ` or without it;
\* no leading date token gives both dates None.
C5_DateCountRule ==
    op = "from_todotxt" /\ res = "ok" =>
        \E p \in {BehindMarkers(line)} :
            \E n \in {LeadingDates(line, p)} :
                /\ n = 0 => task.completion_date = None /\ task.creation_date = None
                /\ n = 1 => /\ task.completion_date = None
                            /\ task.creation_date = Some(SpelledAt(line, p))
                /\ n = 2 => /\ task.completion_date = Some(SpelledAt(line, p))
                            /\ task.creation_date = Some(SpelledAt(line, p + 11))

\* from_todotxt has read a line with the marker `x ` and one date: the task is
\* completed, has that date as its creation date and no completion date
C5_Witness ==
    /\ op = "from_todotxt"
    /\ res = "ok"
    /\ line = <<"x", " ">> \o FormatDate(D1) \o <<" ", "a">>
    /\ task.completion
    /\ task.completion_date = None
    /\ task.creation_date = Some(D1)

\* C6, as claimed: from_todotxt ends, for every line, with Ok(task) or with
\* the Malformed error, and with the Malformed error for a line whose leading
\* date token has the shape YYYY-MM-DD and is no date of the calendar.
C6_ParseFailuresAreErrors ==
    op = "from_todotxt" =>
        /\ res \in {"ok", "err"}
        /\ \E p \in {BehindMarkers(line)} :
              (DateShapeAt(line, p) /\ \E d \in {SpelledAt(line, p)} : ~ValidYmd(d.y, d.m, d.d))
                  => res = "err"

\* C11: the result of from_todotxt depends on the line only, never on the
\* current date: the outcome and the task (completion, priority, completion
\* date, creation date, due date, content, tags and custom tags) of parsing a
\* line on any day are those of parsing the same line on the first day.
C11_ParseIgnoresToday ==
    op = "from_todotxt" =>
        \E r \in {from_todotxt(line, FirstDay)} :
            /\ r.res = res
            /\ res = "ok" => r.task = task

\* from_todotxt has read, on a later day than the first, a line without
\* dates, the case in which no date of the line replaces the stamp of Task::new
C11_Witness ==
    /\ op = "from_todotxt"
    /\ res = "ok"
    /\ today = LastDay
    /\ today # FirstDay
    /\ line = <<"x", " ", "a">>
    /\ task.completion
    /\ task.creation_date = None
    /\ task.content = <<"a">>

\* ------------------------------------------------------------ properties of the comparators

\* Ordering::reverse
Reverse(o) == IF o = "Less" THEN "Greater" ELSE IF o = "Greater" THEN "Less" ELSE "Equal"

\* C7: each of comp_content, comp_creation_date, comp_due_date and
\* comp_priority is a total order: compare(a, a) is Equal; compare(a, b) is
\* the reverse of compare(b, a); compare(a, b) is Equal only when a and b have
\* the same content; compare(a, b) and compare(b, c) not Greater imply
\* compare(a, c) not Greater; for all mixes of present and absent priority,
\* creation date and due date.
C7_TotalOrder ==
    op = "comp" =>
        /\ ords.aa = "Equal"
        /\ ords.ab = Reverse(ords.ba)
        /\ ords.ab = "Equal" => trio[1].content = trio[2].content
        /\ ords.ab # "Greater" /\ ords.bc # "Greater" => ords.ac # "Greater"

\* comp_priority has ordered a task with a priority before one with a due date
\* only, and that one before one with neither, whose content is the least
C7_Witness ==
    /\ op = "comp"
    /\ ords.sort = "Priority"
    /\ IsSome(trio[1].priority) /\ trio[1].duedate = None
    /\ trio[2].priority = None /\ IsSome(trio[2].duedate)
    /\ trio[3].priority = None /\ trio[3].duedate = None
    /\ trio[1].content = <<"b">> /\ trio[2].content = <<"b">> /\ trio[3].content = <<"a">>
    /\ ords.ab = "Less" /\ ords.bc = "Less" /\ ords.ac = "Less" /\ ords.ba = "Greater"

\* the order of two contents
ContentOrder(a, b) ==
    IF a.content = b.content THEN "Equal"
    ELSE IF StrLess(a.content, b.content) THEN "Less" ELSE "Greater"

\* the order of two tasks by due date, as C8 states it
DueOrder(a, b) ==
    IF a.duedate = b.duedate THEN ContentOrder(a, b)
    ELSE IF b.duedate = None THEN "Less"
    ELSE IF a.duedate = None THEN "Greater"
    ELSE IF DateLess(Unwrap(a.duedate), Unwrap(b.duedate)) THEN "Less" ELSE "Greater"

\* C8: whatever the contents, comp_creation_date(a, b) is Greater when only a
\* has a creation date, comp_due_date(a, b) is Less when only a has a due
\* date, comp_priority(a, b) is Less when only a has a priority; when the keys
\* are equal or both absent the result is that of the next comparator, by
\* content for the creation and due dates and comp_due_date for the priority.
C8_MissingKeyPlacement ==
    op = "comp" =>
        \E a \in {trio[1]}, b \in {trio[2]} :
            /\ ords.sort = "CreationDate" =>
                  /\ IsSome(a.creation_date) /\ b.creation_date = None => ords.ab = "Greater"
                  /\ a.creation_date = None /\ IsSome(b.creation_date) => ords.ab = "Less"
                  /\ a.creation_date = b.creation_date => ords.ab = ContentOrder(a, b)
            /\ ords.sort = "DueDate" =>
                  /\ IsSome(a.duedate) /\ b.duedate = None => ords.ab = "Less"
                  /\ a.duedate = None /\ IsSome(b.duedate) => ords.ab = "Greater"
                  /\ a.duedate = b.duedate => ords.ab = ContentOrder(a, b)
            /\ ords.sort = "Priority" =>
                  /\ IsSome(a.priority) /\ b.priority = None => ords.ab = "Less"
                  /\ a.priority = None /\ IsSome(b.priority) => ords.ab = "Greater"
                  /\ a.priority = b.priority => ords.ab = DueOrder(a, b)

\* comp_creation_date has put a task with a creation date behind one without,
\* against the order of their contents
C8_Witness ==
    /\ op = "comp"
    /\ ords.sort = "CreationDate"
    /\ IsSome(trio[1].creation_date)
    /\ trio[2].creation_date = None
    /\ trio[1].content = <<"a">>
    /\ trio[2].content = <<"b">>
    /\ ords.ab = "Greater"

\* ------------------------------------------------------------ properties of the tags

\* the tokens behind each mark in content: the mark is the first character or
\* follows a space, and the token is the longest run without whitespace after it
TokensBehind(content, mark) ==
    LET marks == {i \in 1..Len(content) :
                    content[i] = mark /\ (i = 1 \/ content[i - 1] = " ")}
        ends(i) == {j \in (i + 1)..Len(content) :
                      /\ \A k \in (i + 1)..j : content[k] \notin Whitespace
                      /\ (j = Len(content) \/ content[j + 1] \in Whitespace)}
    IN  UNION {{SubSeq(content, i + 1, j) : j \in ends(i)} : i \in marks}

\* v is in ascending order, without duplicates, and holds the strings of set
IsSortedListOf(v, set) ==
    /\ \A i \in 1..(Len(v) - 1) : StrLess(v[i], v[i + 1])
    /\ {v[i] : i \in 1..Len(v)} = set

\* C9: in every Task reached from the constructors or a successful
\* from_todotxt() by any sequence of setter calls, project_tags (context_tags)
\* is the ascending, duplicate-free list of the tokens behind each + (@) that
\* starts the current content or follows a space in it.
C9_TagsOfCurrentContent ==
    /\ IsSortedListOf(task.project_tags, TokensBehind(task.content, "+"))
    /\ IsSortedListOf(task.context_tags, TokensBehind(task.content, "@"))

\* set_content has acted on a task parsed with a custom tag and with other
\* tags, and has given it a content with the project tag b twice, the project
\* tag a once and the context tag c
C9_Witness ==
    /\ op = "set_content"
    /\ task.custom_tags # {}
    /\ task.content = TaggedContent
    /\ task.project_tags = <<<<"a">>, <<"b">>>>
    /\ task.context_tags = <<<<"c">>>>

\* C10: set_completed() sets completion and sets completion_date to today;
\* a creation_date of None becomes the new completion_date and any other is
\* kept; content, priority, due date, tags and custom_tags are unchanged; a
\* second call changes nothing but completion_date, which is today again.
C10_SetCompletedFrame ==
    [][SetCompleted =>
          /\ task'.completion
          /\ task'.completion_date = Some(today)
          /\ task'.creation_date =
                IF task.creation_date = None THEN task'.completion_date ELSE task.creation_date
          /\ task'.content = task.content
          /\ task'.priority = task.priority
          /\ task'.duedate = task.duedate
          /\ task'.project_tags = task.project_tags
          /\ task'.context_tags = task.context_tags
          /\ task'.custom_tags = task.custom_tags
          /\ (op = "set_completed" => task' = [task EXCEPT !.completion_date = Some(today)])
    ]_vars

\* set_completed has acted, on the last day, on a task with a priority and a
\* custom tag whose creation date, of an earlier day, is kept
C10_Witness ==
    /\ op = "set_completed"
    /\ today = LastDay
    /\ task.completion
    /\ task.completion_date = Some(LastDay)
    /\ task.creation_date = Some(D1)
    /\ task.priority = Some("A")
    /\ task.custom_tags # {}

=============================================================================
